---- MODULE Spec2Model ----
(***************************************************************************)
(* Model of hearth-desktop (src-tauri/src): the deep-link router          *)
(* (deeplink.rs), the callbacks of main.rs and tray.rs on the main window, *)
(* the mute, focus-mode and sleep flags (commands.rs, tray.rs, power.rs)   *)
(* and the updater (updater.rs).  A Rust string is modelled as a sequence  *)
(* of characters, each character a one-character TLA+ string; a payload is *)
(* a record (action, target, params) and Option<T> is <<>> or <<v>>.       *)
(***************************************************************************)
EXTENDS Integers, Sequences, FiniteSets, TLC

\* one call of parse_deep_link
VARIABLES url, result, pc

\* the running application: the main window, the callback that ran latest
\* (for incoming links, or a window, tray or shortcut handler), and what it
\* did
VARIABLES window, handler, hpc, queue, batch, refocus, handed, calls, emitted

\* the process-wide flags (the statics of commands.rs, tray.rs and power.rs),
\* the tray menu, the platform of the build, the sleep inhibitions in force
\* and the latest call made on the flags
VARIABLES NOTIFICATIONS_MUTED, FOCUS_MODE_ACTIVE, FOCUS_MODE_ENABLED,
          PREVENTING_SLEEP, tray_menu, target_os, inhibitors, last

\* toggle_mute calls in progress, one caller per source, and how many calls
\* were made
VARIABLES mute_call, ntoggles

\* one call of download_and_install_update
VARIABLES upc, downloaded, chunks, uevents, usteps, ureturn

parsevars == <<url, result, pc>>
appvars == <<window, handler, hpc, queue, batch, refocus, handed, calls, emitted>>
shellvars == <<NOTIFICATIONS_MUTED, FOCUS_MODE_ACTIVE, FOCUS_MODE_ENABLED,
               PREVENTING_SLEEP, tray_menu, target_os, inhibitors, last>>
racevars == <<mute_call, ntoggles>>
updvars == <<upc, downloaded, chunks, uevents, usteps, ureturn>>
othervars == <<shellvars, racevars, updvars>>
vars == <<parsevars, appvars, othervars>>

(***************************************************************************)
(* Bounds of the input space.                                              *)
(***************************************************************************)
MaxWs == 2
MaxPathToks == 5
MaxPairs == 2
MaxArgs == 2

(***************************************************************************)
(* Option<T>                                                               *)
(***************************************************************************)
None == <<>>
Some(v) == <<v>>
is_some(o) == o # <<>>
unwrap(o) == o[1]

(***************************************************************************)
(* Bytes.  Printable ASCII characters are listed in code order starting at *)
(* 0x20; a byte with no character that a TLA+ string can hold (a control   *)
(* byte, the grave accent 96, a byte above 126) is written "\xNNN"         *)
(* (decimal), one sequence element per byte.                               *)
(***************************************************************************)
Printable ==
    <<" ", "!", "\"", "#", "$", "%", "&", "'", "(", ")", "*", "+", ",", "-",
      ".", "/", "0", "1", "2", "3", "4", "5", "6", "7", "8", "9", ":", ";",
      "<", "=", ">", "?", "@", "A", "B", "C", "D", "E", "F", "G", "H", "I",
      "J", "K", "L", "M", "N", "O", "P", "Q", "R", "S", "T", "U", "V", "W",
      "X", "Y", "Z", "[", "\\", "]", "^", "_", "\\x96", "a", "b", "c", "d", "e",
      "f", "g", "h", "i", "j", "k", "l", "m", "n", "o", "p", "q", "r", "s",
      "t", "u", "v", "w", "x", "y", "z", "{", "|", "}", "~">>

Controls == [c \in {"\t", "\n", "\f", "\r"} |->
                CASE c = "\t" -> 9 [] c = "\n" -> 10 [] c = "\f" -> 12 [] c = "\r" -> 13]

\* the byte value of a character of the input (the input alphabet is ASCII)
byte_of(c) ==
    IF c \in DOMAIN Controls THEN Controls[c]
    ELSE 31 + (CHOOSE i \in 1..Len(Printable) : Printable[i] = c)

\* the string element that stands for byte b
char_of(b) ==
    IF b >= 32 /\ b <= 126 THEN Printable[b - 31]
    ELSE IF \E c \in DOMAIN Controls : Controls[c] = b
         THEN CHOOSE c \in DOMAIN Controls : Controls[c] = b
         ELSE "\\x" \o ToString(b)

RECURSIVE bytes_of(_)
bytes_of(s) == IF s = <<>> THEN <<>> ELSE <<byte_of(Head(s))>> \o bytes_of(Tail(s))

RECURSIVE chars_of(_)
chars_of(bs) == IF bs = <<>> THEN <<>> ELSE <<char_of(Head(bs))>> \o chars_of(Tail(bs))

(***************************************************************************)
(* str / char primitives of the Rust standard library used by the parser   *)
(***************************************************************************)
\* char::is_whitespace, restricted to the ASCII White_Space characters
is_whitespace(c) == c \in {" ", "\t", "\n", "\f", "\r"}

\* str::trim: drop the leading and the trailing run of whitespace
RECURSIVE trim_start(_)
trim_start(s) ==
    IF s # <<>> /\ is_whitespace(Head(s)) THEN trim_start(Tail(s)) ELSE s

RECURSIVE trim_end(_)
trim_end(s) ==
    IF s # <<>> /\ is_whitespace(s[Len(s)])
    THEN trim_end(SubSeq(s, 1, Len(s) - 1))
    ELSE s

\* str::trim_start alone: trailing whitespace is kept
trim_leading_only(s) == trim_start(s)

trim(s) == trim_end(trim_start(s))

\* char::to_ascii_lowercase
to_ascii_lowercase(c) ==
    LET b == byte_of(c)
    IN  IF b >= 65 /\ b <= 90 THEN char_of(b + 32) ELSE c

\* a prefix test that ignores ASCII case (str::eq_ignore_ascii_case)
starts_with_ignore_case(s, p) ==
    /\ Len(s) >= Len(p)
    /\ \A i \in 1..Len(p) : to_ascii_lowercase(s[i]) = to_ascii_lowercase(p[i])

\* str::starts_with(&str): byte-wise, case-sensitive prefix test
starts_with(s, p) == Len(s) >= Len(p) /\ SubSeq(s, 1, Len(p)) = p

\* str::find(char): 1-based index of the first occurrence, 0 when absent
find(s, c) ==
    IF \E i \in 1..Len(s) : s[i] = c
    THEN CHOOSE i \in 1..Len(s) : s[i] = c /\ \A j \in 1..(i - 1) : s[j] # c
    ELSE 0

\* str::split(char): k separators give k + 1 pieces, empty pieces included
RECURSIVE split(_, _)
split(s, sep) ==
    LET i == find(s, sep)
    IN  IF i = 0
        THEN <<s>>
        ELSE <<SubSeq(s, 1, i - 1)>> \o split(SubSeq(s, i + 1, Len(s)), sep)

\* [&str]::join(&str) with a one-character separator
RECURSIVE join(_, _)
join(parts, sep) ==
    IF parts = <<>> THEN <<>>
    ELSE IF Len(parts) = 1 THEN parts[1]
    ELSE parts[1] \o <<sep>> \o join(Tail(parts), sep)

\* str::rsplit_once-like split at the LAST delimiter
split_at_last(s, c) ==
    IF find(s, c) = 0 THEN None
    ELSE LET i == CHOOSE k \in 1..Len(s) :
                      s[k] = c /\ \A j \in (k + 1)..Len(s) : s[j] # c
         IN  Some(<<SubSeq(s, 1, i - 1), SubSeq(s, i + 1, Len(s))>>)

\* str::split_once(char): split at the FIRST delimiter, None when absent
split_once(s, c) ==
    LET i == find(s, c)
    IN  IF i = 0 THEN None
        ELSE Some(<<SubSeq(s, 1, i - 1), SubSeq(s, i + 1, Len(s))>>)

\* only a leading empty piece is dropped (a leading '/' is tolerated,
\* doubled and trailing ones are not)
drop_leading_empty(ss) == IF ss # <<>> /\ Head(ss) = <<>> THEN Tail(ss) ELSE ss

\* no filter at all: empty pieces are kept
keep_all(ss) == ss

\* Iterator::filter(|s| !s.is_empty())
RECURSIVE filter_non_empty(_)
filter_non_empty(ss) ==
    IF ss = <<>> THEN <<>>
    ELSE IF Head(ss) = <<>> THEN filter_non_empty(Tail(ss))
    ELSE <<Head(ss)>> \o filter_non_empty(Tail(ss))

(***************************************************************************)
(* urlencoding::decode (crate urlencoding 2.x), as called by the parser.   *)
(***************************************************************************)
\* from_hex_digit: Some(value) for 0-9, A-F, a-f
from_hex_digit(c) ==
    LET b == byte_of(c)
    IN  IF b >= 48 /\ b <= 57 THEN Some(b - 48)
        ELSE IF b >= 65 /\ b <= 70 THEN Some(b - 65 + 10)
        ELSE IF b >= 97 /\ b <= 102 THEN Some(b - 97 + 10)
        ELSE None

\* decode_binary: every "%XY" with two hex digits becomes one byte; a '%'
\* not followed by two hex digits is copied literally
RECURSIVE decode_binary(_)
decode_binary(data) ==
    LET i == find(data, "%")
    IN  IF i = 0 THEN bytes_of(data)
        ELSE LET non_escaped_part == bytes_of(SubSeq(data, 1, i - 1))
                 rest == SubSeq(data, i + 1, Len(data))
             IN  IF Len(rest) < 2
                 THEN non_escaped_part \o <<byte_of("%")>> \o bytes_of(rest)
                 ELSE LET first == from_hex_digit(rest[1])
                          second == from_hex_digit(rest[2])
                      IN  IF ~is_some(first)
                          THEN non_escaped_part \o <<byte_of("%")>>
                                   \o decode_binary(rest)
                          ELSE IF ~is_some(second)
                          THEN non_escaped_part \o <<byte_of("%"), byte_of(rest[1])>>
                                   \o decode_binary(Tail(rest))
                          ELSE non_escaped_part
                                   \o <<unwrap(first) * 16 + unwrap(second)>>
                                   \o decode_binary(SubSeq(rest, 3, Len(rest)))

is_cont(bs, i) == i <= Len(bs) /\ bs[i] >= 128 /\ bs[i] <= 191

\* String::from_utf8's validity test (std::str::from_utf8)
RECURSIVE valid_utf8(_)
valid_utf8(bs) ==
    IF bs = <<>> THEN TRUE
    ELSE LET b == bs[1]
             w == IF b < 128 THEN 1
                  ELSE IF b >= 194 /\ b <= 223 THEN 2
                  ELSE IF b >= 224 /\ b <= 239 THEN 3
                  ELSE IF b >= 240 /\ b <= 244 THEN 4
                  ELSE 0
         IN  /\ w # 0
             /\ \A i \in 2..w : is_cont(bs, i)
             /\ (b = 224 => bs[2] >= 160)
             /\ (b = 237 => bs[2] <= 159)
             /\ (b = 240 => bs[2] >= 144)
             /\ (b = 244 => bs[2] <= 143)
             /\ valid_utf8(SubSeq(bs, w + 1, Len(bs)))

\* urlencoding::decode: Ok(text) when the decoded bytes are UTF-8, else Err
decode(s) ==
    LET bs == decode_binary(s)
    IN  IF valid_utf8(bs) THEN Some(chars_of(bs)) ELSE None

\* U+FFFD in place of the empty string on Err (as String::from_utf8_lossy
\* would give)
unwrap_or_replacement(r) ==
    IF is_some(r) THEN unwrap(r) ELSE <<"\\x239", "\\x191", "\\x189">>

\* Result::unwrap_or_default().to_string(): the empty string on Err
unwrap_or_default(r) == IF is_some(r) THEN unwrap(r) ELSE <<>>

(***************************************************************************)
(* std::collections::HashMap<String, String> as a function whose domain is *)
(* the set of keys.                                                        *)
(***************************************************************************)
HashMap_new == [k \in {} |-> <<>>]

contains_key(m, k) == k \in DOMAIN m

\* HashMap::entry(k).or_insert(v): an existing key keeps its value
insert_if_absent(m, k, v) ==
    [x \in (DOMAIN m) \cup {k} |-> IF x \in DOMAIN m THEN m[x] ELSE v]

\* HashMap::insert: the new value replaces the value of an existing key
insert(m, k, v) == [x \in (DOMAIN m) \cup {k} |-> IF x = k THEN v ELSE m[x]]

\* slice::get(i + 1): the index is one too far
get_next(xs, i) == IF i + 2 <= Len(xs) THEN Some(xs[i + 2]) ELSE None

\* slice::get(i) with a 0-based index
get(xs, i) == IF i + 1 <= Len(xs) THEN Some(xs[i + 1]) ELSE None

(***************************************************************************)
(* parse_deep_link                                                         *)
(***************************************************************************)
\* the literal "hearth://" and the offset of `&url[9..]`
SCHEME == <<"h", "e", "a", "r", "t", "h", ":", "/", "/">>
SchemeLen == 9

SERVER == <<"s", "e", "r", "v", "e", "r">>
CHANNEL == <<"c", "h", "a", "n", "n", "e", "l">>

\* a pair without '=' is taken as a key with an empty value
insert_pair_bare_key(params, pair) ==
    LET kv == split_once(pair, "=")
    IN  IF is_some(kv)
        THEN insert(params,
                    unwrap_or_default(decode(unwrap(kv)[1])),
                    unwrap_or_default(decode(unwrap(kv)[2])))
        ELSE insert(params, unwrap_or_default(decode(pair)), <<>>)

\* the actions named by the doc comment of parse_deep_link
Vocabulary ==
    { <<"c", "h", "a", "t">>, <<"r", "o", "o", "m">>, CHANNEL, SERVER,
      <<"i", "n", "v", "i", "t", "e">>,
      <<"s", "e", "t", "t", "i", "n", "g", "s">>, <<"c", "a", "l", "l">> }

\* one iteration of `for pair in query.split('&')`
insert_pair(params, pair) ==
    LET kv == split_once(pair, "=")
    IN  IF is_some(kv)
        THEN insert(params,
                    unwrap_or_default(decode(unwrap(kv)[1])),
                    unwrap_or_default(decode(unwrap(kv)[2])))
        ELSE params

\* the loop over the pairs, left to right
RECURSIVE insert_pairs(_, _)
insert_pairs(params, pairs) ==
    IF pairs = <<>> THEN params
    ELSE insert_pairs(insert_pair(params, Head(pairs)), Tail(pairs))

\* only the text up to the second '?' is taken as the query (`parts[0]`
\* instead of `parts.join("?")`)
query_params_first_part(parts) ==
    IF parts # <<>>
    THEN insert_pairs(HashMap_new, split(parts[1], "&"))
    ELSE HashMap_new

\* "Parse query params": parts is what is left of path.split('?') once the
\* path part has been removed
query_params(parts) ==
    IF parts # <<>>
    THEN insert_pairs(HashMap_new, split(join(parts, "?"), "&"))
    ELSE HashMap_new

\* the first piece of the split is skipped (Iterator::skip(1))
path_segments_skip_first(path_part) ==
    filter_non_empty(Tail(split(path_part, "/")))

\* a path whose first segment is not a documented action is refused
path_segments_known_only(path_part) ==
    LET segs == filter_non_empty(split(path_part, "/"))
    IN  IF segs # <<>> /\ segs[1] \notin Vocabulary THEN <<>> ELSE segs

\* "Parse path": the non-empty '/'-separated segments
path_segments(path_part) == filter_non_empty(split(path_part, "/"))

\* the action lower-cased (str::to_ascii_lowercase)
RECURSIVE lowercased(_)
lowercased(s) ==
    IF s = <<>> THEN <<>>
    ELSE <<to_ascii_lowercase(Head(s))>> \o lowercased(Tail(s))

action_lowercased(segments) == lowercased(segments[1])

\* `segments[0].to_string()`
action_of(segments) == segments[1]

\* a channel given in the query is kept (entry("channel").or_insert)
server_channel_or_insert(action, segments, params) ==
    IF action = SERVER /\ Len(segments) >= 3
    THEN insert_if_absent(params, CHANNEL, segments[3])
    ELSE params

\* the action is compared ignoring ASCII case (eq_ignore_ascii_case)
server_channel_ignore_case(action, segments, params) ==
    IF lowercased(action) = SERVER /\ Len(segments) >= 3
    THEN insert(params, CHANNEL, segments[3])
    ELSE params

\* "Handle special case: server/:serverId/:channelId"
server_channel(action, segments, params) ==
    IF action = SERVER /\ Len(segments) >= 3
    THEN insert(params, CHANNEL, segments[3])
    ELSE params

DeepLinkPayload(action, target, params) ==
    [action |-> action, target |-> target, params |-> params]

parse_deep_link(raw) ==
    LET u == trim(raw)
    IN  IF ~starts_with(u, SCHEME) THEN None
        ELSE LET path == SubSeq(u, SchemeLen + 1, Len(u))
                 parts == split(path, "?")
                 path_part == parts[1]
                 params == query_params(Tail(parts))
                 segments == path_segments(path_part)
             IN  IF segments = <<>> THEN None
                 ELSE LET action == action_of(segments)
                          target == get(segments, 1)
                      IN  Some(DeepLinkPayload(
                                   action, target,
                                   server_channel(action, segments, params)))

(***************************************************************************)
(* The input space: the strings handed to parse_deep_link.  Four families  *)
(* are drawn: every whitespace padding of at most MaxWs characters a side, *)
(* scheme variants before a few tails, every path of at most MaxPathToks   *)
(* tokens, and every query of at most MaxPairs '&'-separated pieces.       *)
(***************************************************************************)
RECURSIVE Flatten(_)
Flatten(ss) == IF ss = <<>> THEN <<>> ELSE Head(ss) \o Flatten(Tail(ss))

SeqsUpTo(S, n) == UNION {[1..k -> S] : k \in 0..n}

WsChars == {" ", "\n"}
WsRuns == SeqsUpTo(WsChars, MaxWs)

HTTP == <<"h", "t", "t", "p", ":", "/", "/">>

Schemes ==
    { SCHEME,
      HTTP,
      <<"H", "E", "A", "R", "T", "H", ":", "/", "/">>,
      <<"H", "e", "a", "r", "t", "h", ":", "/", "/">>,
      <<"h", "e", "a", "r", "t", "h", ":", "/">>,
      <<"x">> \o SCHEME,
      <<>> }

Tails ==
    { <<>>,
      <<"s", "e", "t", "t", "i", "n", "g", "s">>,
      <<"/">>,
      <<"?", "a", "=", "1">>,
      <<"S", "e", "r", "v", "e", "r", "/", "s", "/", "c", "1", "?">>
          \o CHANNEL \o <<"=", "c", "2">>,
      <<"/", "/", "C", "h", "a", "t", "/", "/", "%", "4", "1", "/">>,
      <<"a", "/", "b", "?", "x", "=", "1", "?", "y", "=", "2">> }

PaddedTails ==
    { <<>>,
      <<"c", "h", "a", "t", "/", "1">>,
      <<"a", " ", "b", "/", "c">> }

PathToks == { <<"/">>, SERVER, <<"c">> }

Paths == {Flatten(ts) : ts \in SeqsUpTo(PathToks, MaxPathToks)}

FewQueries ==
    { <<>>,
      <<"?", "a", "=", "%", "4", "1", "&">> \o CHANNEL \o <<"=", "x", "?", "y">> }

FewPaths ==
    { <<>>,
      <<"a", "/", "b">>,
      SERVER \o <<"/", "s", "/", "c", "1">> }

Keys == { <<"a">>, CHANNEL, <<"%", "6", "1">>, <<"%", "f", "f">> }

Values == { <<"1">>, <<"b", "=", "c">>, <<"%", "f", "f">> }

\* a piece of a query: a bare key, or key=value
Pieces == Keys \cup {k \o <<"=">> \o v : k \in Keys, v \in Values}

Queries == {<<"?">> \o join(ps, "&") : ps \in SeqsUpTo(Pieces, MaxPairs)}

Inputs ==
    {lead \o sch \o tl \o trail :
        lead \in WsRuns, sch \in {SCHEME, HTTP}, tl \in PaddedTails,
        trail \in WsRuns}
    \cup {ws \o sch \o tl \o ws : ws \in {<<>>, <<" ">>}, sch \in Schemes, tl \in Tails}
    \cup {SCHEME \o p \o q : p \in Paths, q \in FewQueries}
    \cup {SCHEME \o p \o q : p \in FewPaths, q \in Queries}

(***************************************************************************)
(* handle_deep_link.  app is what the handler touches through the          *)
(* AppHandle: the main window, the calls made on it and the events emitted *)
(* to the frontend.  window.show() and window.set_focus() return a Result  *)
(* the handler drops; show_ok and focus_ok are their outcomes.             *)
(***************************************************************************)
Call(op, ok, u) == [op |-> op, ok |-> ok, url |-> u]
Event(name, payload) == [event |-> name, payload |-> payload]

shown(w, ok) == [w EXCEPT !.visible = w.visible \/ ok]
focused(w, ok) == [w EXCEPT !.focused = w.focused \/ ok]
hidden(w, ok) ==
    [w EXCEPT !.visible = w.visible /\ ~ok, !.focused = w.focused /\ ~ok]

\* the event is emitted before the window is shown and focused
handle_deep_link_emit_first(app, u, show_ok, focus_ok) ==
    LET payload == parse_deep_link(u)
    IN  IF is_some(payload) /\ app.window.exists
        THEN [window |-> focused(shown(app.window, show_ok), focus_ok),
              calls |-> app.calls \o <<Call("emit", TRUE, u),
                                       Call("show", show_ok, u),
                                       Call("set_focus", focus_ok, u)>>,
              emitted |-> Append(app.emitted, Event("deeplink", unwrap(payload)))]
        ELSE app

\* show and set_focus failures are propagated (`?`) instead of dropped
handle_deep_link_propagating(app, u, show_ok, focus_ok) ==
    LET payload == parse_deep_link(u)
    IN  IF is_some(payload) /\ app.window.exists
        THEN IF ~show_ok
             THEN [app EXCEPT !.calls = app.calls \o <<Call("show", FALSE, u)>>]
             ELSE IF ~focus_ok
             THEN [window |-> shown(app.window, TRUE),
                   calls |-> app.calls \o <<Call("show", TRUE, u),
                                            Call("set_focus", FALSE, u)>>,
                   emitted |-> app.emitted]
             ELSE [window |-> focused(shown(app.window, TRUE), TRUE),
                   calls |-> app.calls \o <<Call("show", TRUE, u),
                                            Call("set_focus", TRUE, u),
                                            Call("emit", TRUE, u)>>,
                   emitted |-> Append(app.emitted,
                                      Event("deeplink", unwrap(payload)))]
        ELSE app

\* the window is shown and focused before the URL is looked at
handle_deep_link_show_always(app, u, show_ok, focus_ok) ==
    LET payload == parse_deep_link(u)
        w == IF app.window.exists
             THEN focused(shown(app.window, show_ok), focus_ok)
             ELSE app.window
    IN  IF is_some(payload) /\ app.window.exists
        THEN [window |-> w,
              calls |-> app.calls \o <<Call("show", show_ok, u),
                                       Call("set_focus", focus_ok, u),
                                       Call("emit", TRUE, u)>>,
              emitted |-> Append(app.emitted, Event("deeplink", unwrap(payload)))]
        ELSE [app EXCEPT !.window = w]

handle_deep_link(app, u, show_ok, focus_ok) ==
    LET payload == parse_deep_link(u)
    IN  IF is_some(payload) /\ app.window.exists
        THEN [window |-> focused(shown(app.window, show_ok), focus_ok),
              calls |-> app.calls \o <<Call("show", show_ok, u),
                                       Call("set_focus", focus_ok, u),
                                       Call("emit", TRUE, u)>>,
              emitted |-> Append(app.emitted, Event("deeplink", unwrap(payload)))]
        ELSE app

\* the application as built, before the event loop has created the main
\* window and run the setup hook
NoWindow == [exists |-> FALSE, visible |-> FALSE, focused |-> FALSE]

AppBuilt ==
    /\ window = NoWindow
    /\ handler = "none"
    /\ hpc = "idle"
    /\ queue = <<>>
    /\ batch = <<>>
    /\ refocus = "none"
    /\ handed = <<>>
    /\ calls = <<>>
    /\ emitted = <<>>

(***************************************************************************)
(* The process-wide flags and the tray menu.                               *)
(***************************************************************************)
MUTE_TEXT == "Mute Notifications"
UNMUTE_TEXT == "Unmute Notifications"
ENTER_FOCUS_TEXT == "Enter Focus Mode"
EXIT_FOCUS_TEXT == "Exit Focus Mode"

\* the two labels create_tray_menu computes; the focus label is read from
\* FOCUS_MODE_ENABLED, passed here as focus_mode_enabled
create_tray_menu(is_muted, focus_mode_enabled) ==
    [mute_text |-> IF is_muted THEN UNMUTE_TEXT ELSE MUTE_TEXT,
     focus_text |-> IF focus_mode_enabled THEN EXIT_FOCUS_TEXT
                    ELSE ENTER_FOCUS_TEXT]

\* the sources a toggle_mute call comes from
Sources == {"command", "shortcut", "tray"}

NoCall == [op |-> "none", source |-> "none", arg |-> None, before |-> FALSE,
           ok |-> TRUE, ret |-> None, event |-> None]

\* the statics as declared, the tray menu as setup_tray creates it
StaticsDeclared ==
    /\ NOTIFICATIONS_MUTED = FALSE
    /\ FOCUS_MODE_ACTIVE = FALSE
    /\ FOCUS_MODE_ENABLED = FALSE
    /\ PREVENTING_SLEEP = FALSE

ShellBuilt ==
    /\ StaticsDeclared
    /\ tray_menu = create_tray_menu(FALSE, FALSE)
    /\ target_os = "linux"
    /\ inhibitors = 0
    /\ last = NoCall

NoMuteCalls ==
    /\ mute_call = [c \in Sources |-> [pc |-> "idle", current |-> FALSE]]
    /\ ntoggles = 0

UpdaterIdle ==
    /\ upc = "none"
    /\ downloaded = 0
    /\ chunks = <<>>
    /\ uevents = <<>>
    /\ usteps = <<>>
    /\ ureturn = None

(***************************************************************************)
(* The state machine: one call of parse_deep_link on an input string.      *)
(***************************************************************************)
Init ==
    /\ url \in Inputs
    /\ result = None
    /\ pc = "call"
    /\ AppBuilt
    /\ ShellBuilt
    /\ NoMuteCalls
    /\ UpdaterIdle

ParseDeepLink ==
    /\ pc = "call"
    /\ result' = parse_deep_link(url)
    /\ pc' = "return"
    /\ UNCHANGED url
    /\ UNCHANGED <<appvars, othervars>>

Next == ParseDeepLink

Spec == Init /\ [][Next]_vars

(***************************************************************************)
(* The running application (main.rs): the single-instance callback, the    *)
(* deep-link://new-url listener, the close-request handler and the tray,   *)
(* shortcut and command handlers that show, hide or quit.  Callbacks run   *)
(* one at a time on the event loop.  handed, calls and emitted record what *)
(* the latest callback did.                                                *)
(***************************************************************************)
AppUrls ==
    { SCHEME \o <<"c", "h", "a", "t", "/", "1">>,
      <<" ">> \o SCHEME \o <<"s", "e", "t", "t", "i", "n", "g", "s">>,
      SCHEME,
      HTTP \o <<"c", "h", "a", "t", "/", "1">> }

Batches == SeqsUpTo(AppUrls, MaxArgs)

AppInit ==
    /\ url = <<>>
    /\ result = None
    /\ pc = "none"
    /\ AppBuilt
    /\ ShellBuilt
    /\ NoMuteCalls
    /\ UpdaterIdle

\* the event loop creates the main window and runs the setup hook, which
\* registers the deep-link listener
Setup ==
    /\ hpc = "idle"
    /\ ~window.exists
    /\ window' = [exists |-> TRUE, visible |-> TRUE, focused |-> TRUE]
    /\ UNCHANGED <<handler, hpc, queue, batch, refocus, handed, calls, emitted>>
    /\ UNCHANGED <<parsevars, othervars>>

\* the strings of args, each kept at its first occurrence only
RECURSIVE without_repeats(_)
without_repeats(args) ==
    IF args = <<>> THEN <<>>
    ELSE LET front == without_repeats(SubSeq(args, 1, Len(args) - 1))
             arg == args[Len(args)]
         IN  IF \E i \in DOMAIN front : front[i] = arg
             THEN front ELSE Append(front, arg)

\* a callback that coalesces the repeated strings of its batch
Begin_coalesced(name, args) ==
    /\ handler' = name
    /\ queue' = without_repeats(args)
    /\ batch' = args
    /\ handed' = <<>>
    /\ calls' = <<>>
    /\ emitted' = <<>>

\* a callback starts on a batch of strings
Begin(name, args) ==
    /\ handler' = name
    /\ queue' = args
    /\ batch' = args
    /\ handed' = <<>>
    /\ calls' = <<>>
    /\ emitted' = <<>>

\* tauri_plugin_single_instance callback, up to the loop:
\* get_webview_window("main").expect("no main window").set_focus()
SecondInstance ==
    /\ hpc = "idle"
    /\ \E args \in Batches, focus_ok \in BOOLEAN :
           /\ Begin("relaunch", args)
           /\ IF window.exists
              THEN /\ window' = focused(window, focus_ok)
                   /\ refocus' = IF focus_ok THEN "ok" ELSE "failed"
                   /\ hpc' = "loop"
              ELSE /\ hpc' = "panicked"
                   /\ refocus' = "none"
                   /\ UNCHANGED window
    /\ UNCHANGED <<parsevars, othervars>>

\* one iteration of `for arg in args`
RelaunchArg ==
    /\ handler = "relaunch"
    /\ hpc = "loop"
    /\ queue # <<>>
    /\ queue' = Tail(queue)
    /\ IF starts_with(Head(queue), SCHEME)
       THEN \E show_ok, focus_ok \in BOOLEAN :
                LET app == handle_deep_link(
                               [window |-> window, calls |-> calls,
                                emitted |-> emitted],
                               Head(queue), show_ok, focus_ok)
                IN  /\ window' = app.window
                    /\ calls' = app.calls
                    /\ emitted' = app.emitted
                    /\ handed' = Append(handed, Head(queue))
       ELSE UNCHANGED <<window, calls, emitted, handed>>
    /\ UNCHANGED <<handler, hpc, batch, refocus>>
    /\ UNCHANGED <<parsevars, othervars>>

\* the callback returns when the loop is over
RelaunchReturn ==
    /\ handler = "relaunch"
    /\ hpc = "loop"
    /\ queue = <<>>
    /\ hpc' = "idle"
    /\ UNCHANGED <<window, handler, queue, batch, refocus, handed, calls, emitted>>
    /\ UNCHANGED <<parsevars, othervars>>

\* the deep-link://new-url listener receives a JSON array of URLs
DeepLinkNewUrl ==
    /\ hpc = "idle"
    /\ window.exists
    /\ \E urls \in Batches : Begin("listener", urls)
    /\ hpc' = "loop"
    /\ refocus' = "none"
    /\ UNCHANGED window
    /\ UNCHANGED <<parsevars, othervars>>

\* a loop that ends (`break`) at the first URL that does not parse
ListenerUrl_stop_at_invalid ==
    /\ handler = "listener"
    /\ hpc = "loop"
    /\ queue # <<>>
    /\ queue' = IF is_some(parse_deep_link(Head(queue))) THEN Tail(queue) ELSE <<>>
    /\ \E show_ok, focus_ok \in BOOLEAN :
           LET app == handle_deep_link(
                          [window |-> window, calls |-> calls,
                           emitted |-> emitted],
                          Head(queue), show_ok, focus_ok)
           IN  /\ window' = app.window
               /\ calls' = app.calls
               /\ emitted' = app.emitted
    /\ handed' = Append(handed, Head(queue))
    /\ UNCHANGED <<handler, hpc, batch, refocus>>
    /\ UNCHANGED <<parsevars, othervars>>

\* one iteration of `for url in urls`
ListenerUrl ==
    /\ handler = "listener"
    /\ hpc = "loop"
    /\ queue # <<>>
    /\ queue' = Tail(queue)
    /\ \E show_ok, focus_ok \in BOOLEAN :
           LET app == handle_deep_link(
                          [window |-> window, calls |-> calls,
                           emitted |-> emitted],
                          Head(queue), show_ok, focus_ok)
           IN  /\ window' = app.window
               /\ calls' = app.calls
               /\ emitted' = app.emitted
    /\ handed' = Append(handed, Head(queue))
    /\ UNCHANGED <<handler, hpc, batch, refocus>>
    /\ UNCHANGED <<parsevars, othervars>>

ListenerReturn ==
    /\ handler = "listener"
    /\ hpc = "loop"
    /\ queue = <<>>
    /\ hpc' = "idle"
    /\ UNCHANGED <<window, handler, queue, batch, refocus, handed, calls, emitted>>
    /\ UNCHANGED <<parsevars, othervars>>

\* a close request that is not prevented: the window is destroyed and, being
\* the last one, takes the application with it
CloseRequested_not_prevented ==
    /\ hpc = "idle"
    /\ window.exists
    /\ Begin("close_requested", <<>>)
    /\ window' = NoWindow
    /\ hpc' = "exited"
    /\ UNCHANGED refocus
    /\ UNCHANGED <<parsevars, othervars>>

\* on_window_event, WindowEvent::CloseRequested: the window is hidden and
\* the close is prevented
CloseRequested ==
    /\ hpc = "idle"
    /\ window.exists
    /\ Begin("close_requested", <<>>)
    /\ \E hide_ok \in BOOLEAN : window' = hidden(window, hide_ok)
    /\ UNCHANGED <<hpc, refocus>>
    /\ UNCHANGED <<parsevars, othervars>>

\* window.show() then window.set_focus(), both results dropped
show_and_focus(w, show_ok, focus_ok) == focused(shown(w, show_ok), focus_ok)

\* if window.is_visible().unwrap_or(false) { hide } else { show; set_focus }
toggle_visibility(w, visible_ok, first_ok, focus_ok) ==
    IF visible_ok /\ w.visible
    THEN hidden(w, first_ok)
    ELSE show_and_focus(w, first_ok, focus_ok)

\* commands::show_window: window.show()?; window.set_focus()
show_window(w, show_ok, focus_ok) ==
    IF show_ok THEN focused(shown(w, TRUE), focus_ok) ELSE w

\* a handler of the tray, of a global shortcut or of a window command, all
\* registered by the setup hook, runs on the main window
WindowHandler(name, w) ==
    /\ hpc = "idle"
    /\ window.exists
    /\ Begin(name, <<>>)
    /\ window' = w
    /\ UNCHANGED <<hpc, refocus>>
    /\ UNCHANGED <<parsevars, othervars>>

\* tray menu items "show" and "hide"
TrayShow ==
    \E show_ok, focus_ok \in BOOLEAN :
        WindowHandler("tray:show", show_and_focus(window, show_ok, focus_ok))

TrayHide ==
    \E hide_ok \in BOOLEAN : WindowHandler("tray:hide", hidden(window, hide_ok))

\* left click on the tray icon
TrayIconClick ==
    \E visible_ok, first_ok, focus_ok \in BOOLEAN :
        WindowHandler("tray:click",
                      toggle_visibility(window, visible_ok, first_ok, focus_ok))

\* global shortcuts CommandOrControl+Shift+H and CommandOrControl+Shift+S
ShortcutToggleVisibility ==
    \E visible_ok, first_ok, focus_ok \in BOOLEAN :
        WindowHandler("shortcut:toggle",
                      toggle_visibility(window, visible_ok, first_ok, focus_ok))

ShortcutShow ==
    \E show_ok, focus_ok \in BOOLEAN :
        WindowHandler("shortcut:show", show_and_focus(window, show_ok, focus_ok))

\* the frontend commands show_window and hide_window
CommandShowWindow ==
    \E show_ok, focus_ok \in BOOLEAN :
        WindowHandler("show_window", show_window(window, show_ok, focus_ok))

CommandHideWindow ==
    \E hide_ok \in BOOLEAN : WindowHandler("hide_window", hidden(window, hide_ok))

\* tray menu item "quit": app.exit(0) ends the event loop, the windows go
\* with it
TrayQuit ==
    /\ hpc = "idle"
    /\ window.exists
    /\ Begin("tray:quit", <<>>)
    /\ window' = NoWindow
    /\ hpc' = "exited"
    /\ UNCHANGED refocus
    /\ UNCHANGED <<parsevars, othervars>>

AppNext ==
    \/ Setup
    \/ SecondInstance
    \/ RelaunchArg
    \/ RelaunchReturn
    \/ DeepLinkNewUrl
    \/ ListenerUrl
    \/ ListenerReturn
    \/ CloseRequested
    \/ TrayShow
    \/ TrayHide
    \/ TrayIconClick
    \/ ShortcutToggleVisibility
    \/ ShortcutShow
    \/ CommandShowWindow
    \/ CommandHideWindow
    \/ TrayQuit

AppSpec == AppInit /\ [][AppNext]_vars

(***************************************************************************)
(* The flags behind the commands, the global shortcuts and the tray menu    *)
(* (commands.rs, tray.rs, power.rs, main.rs).  Here every handler runs from *)
(* start to end before the next one starts.  A command function is an       *)
(* operator from the flag it works on to the flag it leaves and the value   *)
(* it returns.                                                              *)
(***************************************************************************)
MaxInhibitors == 2

\* a toggle that returns the value it found instead of the one it stored
toggle_mute_returning_current(muted) == [flag |-> ~muted, ret |-> muted]

toggle_mute(muted) ==
    LET current == muted
        new_state == ~current
    IN  [flag |-> new_state, ret |-> new_state]

is_muted(muted) == [flag |-> muted, ret |-> muted]

set_mute(flag, muted) == [flag |-> muted, ret |-> muted]

toggle_focus_mode(active) ==
    LET current == active
        new_state == ~current
    IN  [flag |-> new_state, ret |-> new_state]

is_focus_mode_active(active) == [flag |-> active, ret |-> active]

set_focus_mode(flag, active) == [flag |-> active, ret |-> active]

is_focus_mode_enabled(enabled) == enabled

\* update_tray_menu: a new menu is created and set; ok is FALSE when the tray
\* is not found or when creating or setting the menu fails (the callers drop
\* the error)
update_tray_menu(menu, muted, focus_mode_enabled, ok) ==
    IF ok THEN create_tray_menu(muted, focus_mode_enabled) ELSE menu

Called(op, source, arg, before, ok, ret, event) ==
    [op |-> op, source |-> source, arg |-> arg, before |-> before, ok |-> ok,
     ret |-> ret, event |-> event]

MuteMessage(muted) ==
    IF muted THEN "Notifications muted" ELSE "Notifications unmuted"

FocusMessage(active) ==
    IF active THEN "Focus mode enabled - only mentions and DMs"
    ELSE "Focus mode disabled"

\* what a handler leaves alone
MuteSame == UNCHANGED NOTIFICATIONS_MUTED
FocusSame == UNCHANGED <<FOCUS_MODE_ACTIVE, FOCUS_MODE_ENABLED>>
PowerSame == UNCHANGED <<PREVENTING_SLEEP, target_os, inhibitors>>
ShellFrame == UNCHANGED <<parsevars, appvars, racevars, updvars>>

\* the frontend invokes toggle_mute, is_muted, set_mute
CommandToggleMute ==
    LET r == toggle_mute(NOTIFICATIONS_MUTED)
    IN  /\ NOTIFICATIONS_MUTED' = r.flag
        /\ last' = Called("toggle_mute", "command", None, NOTIFICATIONS_MUTED,
                          TRUE, Some(r.ret), None)
        /\ UNCHANGED tray_menu
        /\ FocusSame /\ PowerSame /\ ShellFrame

CommandIsMuted ==
    LET r == is_muted(NOTIFICATIONS_MUTED)
    IN  /\ NOTIFICATIONS_MUTED' = r.flag
        /\ last' = Called("is_muted", "command", None, NOTIFICATIONS_MUTED,
                          TRUE, Some(r.ret), None)
        /\ UNCHANGED tray_menu
        /\ FocusSame /\ PowerSame /\ ShellFrame

CommandSetMute ==
    \E muted \in BOOLEAN :
        LET r == set_mute(NOTIFICATIONS_MUTED, muted)
        IN  /\ NOTIFICATIONS_MUTED' = r.flag
            /\ last' = Called("set_mute", "command", Some(muted),
                              NOTIFICATIONS_MUTED, TRUE, Some(r.ret), None)
            /\ UNCHANGED tray_menu
            /\ FocusSame /\ PowerSame /\ ShellFrame

\* global shortcut CommandOrControl+Shift+M
ShortcutMute ==
    \E menu_ok \in BOOLEAN :
        LET r == toggle_mute(NOTIFICATIONS_MUTED)
            muted == r.ret
        IN  /\ NOTIFICATIONS_MUTED' = r.flag
            /\ tray_menu' = update_tray_menu(tray_menu, muted,
                                             FOCUS_MODE_ENABLED, menu_ok)
            /\ last' = Called("toggle_mute", "shortcut", None,
                              NOTIFICATIONS_MUTED, TRUE, Some(muted),
                              IF window.exists
                              THEN Some(Event("mute-state-changed",
                                              [muted |-> muted,
                                               message |-> MuteMessage(muted)]))
                              ELSE None)
            /\ FocusSame /\ PowerSame /\ ShellFrame

\* tray menu item "toggle_mute"
TrayToggleMute ==
    \E menu_ok \in BOOLEAN :
        LET r == toggle_mute(NOTIFICATIONS_MUTED)
            muted == r.ret
        IN  /\ NOTIFICATIONS_MUTED' = r.flag
            /\ tray_menu' = update_tray_menu(tray_menu, muted,
                                             FOCUS_MODE_ENABLED, menu_ok)
            /\ last' = Called("toggle_mute", "tray", None, NOTIFICATIONS_MUTED,
                              TRUE, Some(muted),
                              IF muted
                              THEN Some(Event("notification",
                                              [muted |-> muted,
                                               message |-> "Notifications muted"]))
                              ELSE None)
            /\ FocusSame /\ PowerSame /\ ShellFrame

FocusEvent(active) ==
    Event("focus-mode-changed",
          [active |-> active, message |-> FocusMessage(active)])

\* the frontend invokes toggle_focus_mode, is_focus_mode_active,
\* set_focus_mode
CommandToggleFocusMode ==
    LET r == toggle_focus_mode(FOCUS_MODE_ACTIVE)
    IN  /\ FOCUS_MODE_ACTIVE' = r.flag
        /\ last' = Called("toggle_focus_mode", "command", None,
                          FOCUS_MODE_ACTIVE, TRUE, Some(r.ret), None)
        /\ UNCHANGED <<FOCUS_MODE_ENABLED, tray_menu>>
        /\ MuteSame /\ PowerSame /\ ShellFrame

CommandIsFocusModeActive ==
    LET r == is_focus_mode_active(FOCUS_MODE_ACTIVE)
    IN  /\ FOCUS_MODE_ACTIVE' = r.flag
        /\ last' = Called("is_focus_mode_active", "command", None,
                          FOCUS_MODE_ACTIVE, TRUE, Some(r.ret), None)
        /\ UNCHANGED <<FOCUS_MODE_ENABLED, tray_menu>>
        /\ MuteSame /\ PowerSame /\ ShellFrame

CommandSetFocusMode ==
    \E active \in BOOLEAN :
        LET r == set_focus_mode(FOCUS_MODE_ACTIVE, active)
        IN  /\ FOCUS_MODE_ACTIVE' = r.flag
            /\ last' = Called("set_focus_mode", "command", Some(active),
                              FOCUS_MODE_ACTIVE, TRUE, Some(r.ret), None)
            /\ UNCHANGED <<FOCUS_MODE_ENABLED, tray_menu>>
            /\ MuteSame /\ PowerSame /\ ShellFrame

\* global shortcut CommandOrControl+Shift+F: toggle_focus_mode, then
\* tray::update_tray_focus_state stores the new state in FOCUS_MODE_ENABLED
\* and updates the tray menu
ShortcutFocusMode ==
    \E menu_ok \in BOOLEAN :
        LET r == toggle_focus_mode(FOCUS_MODE_ACTIVE)
            active == r.ret
        IN  /\ FOCUS_MODE_ACTIVE' = r.flag
            /\ FOCUS_MODE_ENABLED' = active
            /\ tray_menu' = update_tray_menu(tray_menu,
                                             is_muted(NOTIFICATIONS_MUTED).ret,
                                             active, menu_ok)
            /\ last' = Called("toggle_focus_mode", "shortcut", None,
                              FOCUS_MODE_ACTIVE, TRUE, Some(active),
                              IF window.exists THEN Some(FocusEvent(active))
                              ELSE None)
            /\ MuteSame /\ PowerSame /\ ShellFrame

\* tray menu item "toggle_focus": FOCUS_MODE_ENABLED is flipped, the tray
\* menu updated and the frontend notified
TrayToggleFocus ==
    \E menu_ok \in BOOLEAN :
        LET current == FOCUS_MODE_ENABLED
            new_state == ~current
        IN  /\ FOCUS_MODE_ENABLED' = new_state
            /\ tray_menu' = update_tray_menu(tray_menu,
                                             is_muted(NOTIFICATIONS_MUTED).ret,
                                             new_state, menu_ok)
            /\ last' = Called("toggle_focus", "tray", None, current, TRUE,
                              Some(new_state),
                              IF window.exists THEN Some(FocusEvent(new_state))
                              ELSE None)
            /\ UNCHANGED FOCUS_MODE_ACTIVE
            /\ MuteSame /\ PowerSame /\ ShellFrame

\* power::prevent_sleep.  macOS: caffeinate -t 1 is run to its end (output()),
\* so nothing inhibits sleep any more when the call returns.  Windows:
\* SetThreadExecutionState, its result not looked at.  Linux: an inhibitor
\* process is spawned and left to run.
PreventSleep ==
    \E os_ok, status_ok \in BOOLEAN :
        LET failed == \/ target_os = "macos" /\ (~os_ok \/ ~status_ok)
                      \/ target_os = "linux" /\ ~os_ok
        IN  /\ target_os = "linux" /\ os_ok => inhibitors < MaxInhibitors
            /\ inhibitors' =
                   CASE target_os = "macos" -> inhibitors
                     [] target_os = "windows" -> IF os_ok THEN 1 ELSE inhibitors
                     [] target_os = "linux" -> IF os_ok THEN inhibitors + 1
                                               ELSE inhibitors
            /\ PREVENTING_SLEEP' = IF failed THEN PREVENTING_SLEEP ELSE TRUE
            /\ last' = Called("prevent_sleep", "command", None,
                              PREVENTING_SLEEP, ~failed, None, None)
            /\ UNCHANGED <<target_os, tray_menu>>
            /\ MuteSame /\ FocusSame /\ ShellFrame

\* power::allow_sleep: only the Windows build undoes anything
AllowSleep ==
    \E os_ok \in BOOLEAN :
        /\ inhibitors' = IF target_os = "windows" /\ os_ok THEN 0 ELSE inhibitors
        /\ PREVENTING_SLEEP' = FALSE
        /\ last' = Called("allow_sleep", "command", None, PREVENTING_SLEEP,
                          TRUE, None, None)
        /\ UNCHANGED <<target_os, tray_menu>>
        /\ MuteSame /\ FocusSame /\ ShellFrame

IsSleepPrevented ==
    /\ last' = Called("is_sleep_prevented", "command", None, PREVENTING_SLEEP,
                      TRUE, Some(PREVENTING_SLEEP), None)
    /\ UNCHANGED <<PREVENTING_SLEEP, target_os, inhibitors, tray_menu>>
    /\ MuteSame /\ FocusSame /\ ShellFrame

\* the inhibitor process spawned on Linux is not waited for: it may end by
\* itself
InhibitorExits ==
    /\ target_os = "linux"
    /\ inhibitors > 0
    /\ inhibitors' = inhibitors - 1
    /\ UNCHANGED <<PREVENTING_SLEEP, target_os, tray_menu, last>>
    /\ MuteSame /\ FocusSame /\ ShellFrame

\* the application after the setup hook
AppSetUp ==
    /\ url = <<>>
    /\ result = None
    /\ pc = "none"
    /\ window = [exists |-> TRUE, visible |-> TRUE, focused |-> TRUE]
    /\ handler = "none"
    /\ hpc = "idle"
    /\ queue = <<>>
    /\ batch = <<>>
    /\ refocus = "none"
    /\ handed = <<>>
    /\ calls = <<>>
    /\ emitted = <<>>

\* the flags as declared, on one of the three platforms
ShellInit ==
    /\ AppSetUp
    /\ StaticsDeclared
    /\ tray_menu = create_tray_menu(FALSE, FALSE)
    /\ target_os \in {"macos", "windows", "linux"}
    /\ inhibitors = 0
    /\ last = NoCall
    /\ NoMuteCalls
    /\ UpdaterIdle

ShellNext ==
    \/ CommandToggleMute
    \/ CommandIsMuted
    \/ CommandSetMute
    \/ ShortcutMute
    \/ TrayToggleMute
    \/ CommandToggleFocusMode
    \/ CommandIsFocusModeActive
    \/ CommandSetFocusMode
    \/ ShortcutFocusMode
    \/ TrayToggleFocus
    \/ PreventSleep
    \/ AllowSleep
    \/ IsSleepPrevented
    \/ InhibitorExits

ShellSpec == ShellInit /\ [][ShellNext]_vars

(***************************************************************************)
(* toggle_mute under concurrent callers.  The function is a load of         *)
(* NOTIFICATIONS_MUTED followed by a store of the negation, two atomic      *)
(* operations (Ordering::Relaxed) with nothing that holds other callers off *)
(* in between.  Each source has one caller; the shortcut and the tray       *)
(* handlers go on to update the tray menu with the value returned.          *)
(***************************************************************************)
MaxToggles == 3

\* let current = NOTIFICATIONS_MUTED.load(Ordering::Relaxed)
ToggleMuteLoad ==
    \E c \in Sources :
        /\ mute_call[c].pc = "idle"
        /\ ntoggles < MaxToggles
        /\ mute_call' = [mute_call EXCEPT
                             ![c] = [pc |-> "loaded",
                                     current |-> NOTIFICATIONS_MUTED]]
        /\ ntoggles' = ntoggles + 1
        /\ UNCHANGED <<parsevars, appvars, shellvars, updvars>>

\* NOTIFICATIONS_MUTED.store(!current, Ordering::Relaxed); Ok(new_state)
ToggleMuteStore ==
    \E c \in Sources :
        /\ mute_call[c].pc = "loaded"
        /\ LET new_state == ~mute_call[c].current
           IN  /\ NOTIFICATIONS_MUTED' = new_state
               /\ mute_call' = [mute_call EXCEPT
                                    ![c] = IF c = "command"
                                           THEN [pc |-> "idle", current |-> FALSE]
                                           ELSE [pc |-> "returned",
                                                 current |-> new_state]]
        /\ UNCHANGED <<FOCUS_MODE_ACTIVE, FOCUS_MODE_ENABLED, PREVENTING_SLEEP,
                       tray_menu, target_os, inhibitors, last>>
        /\ UNCHANGED <<ntoggles, parsevars, appvars, updvars>>

\* the rest of the shortcut and tray handlers: the tray menu is updated with
\* the value toggle_mute returned
ToggleMuteUpdateTray ==
    \E c \in Sources \ {"command"}, menu_ok \in BOOLEAN :
        /\ mute_call[c].pc = "returned"
        /\ tray_menu' = update_tray_menu(tray_menu, mute_call[c].current,
                                         FOCUS_MODE_ENABLED, menu_ok)
        /\ mute_call' = [mute_call EXCEPT
                             ![c] = [pc |-> "idle", current |-> FALSE]]
        /\ UNCHANGED <<NOTIFICATIONS_MUTED, FOCUS_MODE_ACTIVE,
                       FOCUS_MODE_ENABLED, PREVENTING_SLEEP, target_os,
                       inhibitors, last>>
        /\ UNCHANGED <<ntoggles, parsevars, appvars, updvars>>

MuteRaceInit == ShellInit /\ target_os = "linux"

MuteRaceNext ==
    \/ ToggleMuteLoad
    \/ ToggleMuteStore
    \/ ToggleMuteUpdateTray

MuteRaceSpec == MuteRaceInit /\ [][MuteRaceNext]_vars

(***************************************************************************)
(* updater::download_and_install_update, one call, step by step: the       *)
(* updater is fetched, the update checked for, downloaded chunk by chunk,  *)
(* installed, and the application restarted.  usteps records the steps run *)
(* and how each ended, uevents the events emitted to the frontend.  The     *)
(* percent field of a progress event is computed from the two others.      *)
(***************************************************************************)
MaxChunks == 3
ChunkLens == {0, 1, 2}
ContentLens == {None, Some(4)}

Step(name, outcome) == [step |-> name, outcome |-> outcome]
Err(msg) == [err |-> msg]

UpdateProgress(n, content_len) == [downloaded |-> n, total |-> content_len]

UpdateFrame == UNCHANGED <<parsevars, appvars, shellvars, racevars>>

\* `?`: the error is returned, nothing after it runs
UpdateFails(name, msg) ==
    /\ upc' = "failed"
    /\ usteps' = Append(usteps, Step(name, "err"))
    /\ ureturn' = Some(Err(msg))
    /\ UNCHANGED <<downloaded, chunks, uevents>>

\* app.updater().map_err(..)?
GetUpdater ==
    /\ upc = "start"
    /\ \E ok \in BOOLEAN :
           IF ok
           THEN /\ upc' = "check"
                /\ usteps' = Append(usteps, Step("updater", "ok"))
                /\ UNCHANGED <<downloaded, chunks, uevents, ureturn>>
           ELSE UpdateFails("updater", "updater")
    /\ UpdateFrame

\* updater.check().await.map_err(..)?.ok_or_else(|| "No update available")?
\* then `let mut downloaded = 0u64`
CheckUpdate ==
    /\ upc = "check"
    /\ \E outcome \in {"update", "none", "err"} :
           CASE outcome = "update" ->
                    /\ upc' = "download"
                    /\ usteps' = Append(usteps, Step("check", "ok"))
                    /\ downloaded' = 0
                    /\ UNCHANGED <<chunks, uevents, ureturn>>
             [] outcome = "none" -> UpdateFails("check", "No update available")
             [] outcome = "err" -> UpdateFails("check", "check")
    /\ UpdateFrame

\* the chunk callback set `downloaded` to the length of the chunk received
DownloadChunk_last_chunk_only ==
    /\ upc = "download"
    /\ Len(chunks) < MaxChunks
    /\ \E chunk_len \in ChunkLens, content_len \in ContentLens :
           /\ downloaded' = chunk_len
           /\ chunks' = Append(chunks, chunk_len)
           /\ uevents' = Append(uevents,
                                Event("update:progress",
                                      UpdateProgress(chunk_len, content_len)))
    /\ UNCHANGED <<upc, usteps, ureturn>>
    /\ UpdateFrame

\* the chunk callback of update.download: downloaded += chunk_len, then
\* emit("update:progress", progress), its result dropped
DownloadChunk ==
    /\ upc = "download"
    /\ Len(chunks) < MaxChunks
    /\ \E chunk_len \in ChunkLens, content_len \in ContentLens :
           /\ downloaded' = downloaded + chunk_len
           /\ chunks' = Append(chunks, chunk_len)
           /\ uevents' = Append(uevents,
                                Event("update:progress",
                                      UpdateProgress(downloaded + chunk_len,
                                                     content_len)))
    /\ UNCHANGED <<upc, usteps, ureturn>>
    /\ UpdateFrame

\* update.download(..).await.map_err(..)? and, when it is Ok,
\* emit("update:installing", ())
DownloadEnds ==
    /\ upc = "download"
    /\ \E ok \in BOOLEAN :
           IF ok
           THEN /\ upc' = "install"
                /\ usteps' = Append(usteps, Step("download", "ok"))
                /\ uevents' = Append(uevents, Event("update:installing", <<>>))
                /\ UNCHANGED <<downloaded, chunks, ureturn>>
           ELSE UpdateFails("download", "download")
    /\ UpdateFrame

\* update.install(bytes).map_err(..)? and, when it is Ok, app.restart(),
\* which does not return
InstallUpdate ==
    /\ upc = "install"
    /\ \E ok \in BOOLEAN :
           IF ok
           THEN /\ upc' = "restarted"
                /\ usteps' = usteps \o <<Step("install", "ok"),
                                         Step("restart", "ok")>>
                /\ UNCHANGED <<downloaded, chunks, uevents, ureturn>>
           ELSE UpdateFails("install", "install")
    /\ UpdateFrame

\* the frontend has invoked download_and_install_update
UpdateInit ==
    /\ AppSetUp
    /\ ShellBuilt
    /\ NoMuteCalls
    /\ upc = "start"
    /\ downloaded = 0
    /\ chunks = <<>>
    /\ uevents = <<>>
    /\ usteps = <<>>
    /\ ureturn = None

UpdateNext ==
    \/ GetUpdater
    \/ CheckUpdate
    \/ DownloadChunk
    \/ DownloadEnds
    \/ InstallUpdate

UpdateSpec == UpdateInit /\ [][UpdateNext]_vars

(***************************************************************************)
(* Reference reading of a URL, by character positions, against which the   *)
(* parser's result is compared.                                            *)
(***************************************************************************)
Min(S) == CHOOSE x \in S : \A y \in S : x <= y
Max(S) == CHOOSE x \in S : \A y \in S : x >= y

\* the k-th smallest element of a set of numbers
Kth(S, k) == CHOOSE x \in S : Cardinality({y \in S : y < x}) = k - 1

\* s without its leading and trailing whitespace
Stripped(s) ==
    LET inked == {i \in 1..Len(s) : ~is_whitespace(s[i])}
    IN  IF inked = {} THEN <<>> ELSE SubSeq(s, Min(inked), Max(inked))

HasPrefix(s, p) == Len(s) >= Len(p) /\ \A i \in 1..Len(p) : s[i] = p[i]

\* s from position i on
From(s, i) == SubSeq(s, i, Len(s))

\* position of the first c in s, Len(s) + 1 when there is none
FirstPos(s, c) == Min({i \in 1..Len(s) : s[i] = c} \cup {Len(s) + 1})

\* what follows the scheme in the stripped URL
AfterScheme(s) == From(Stripped(s), Len(SCHEME) + 1)

\* the text before the first '?', and the text after it
PathText(s) == LET r == AfterScheme(s) IN SubSeq(r, 1, FirstPos(r, "?") - 1)
HasQuery(s) == LET r == AfterScheme(s) IN FirstPos(r, "?") <= Len(r)
QueryText(s) == LET r == AfterScheme(s) IN From(r, FirstPos(r, "?") + 1)

\* the pieces of t between consecutive separators
Cuts(t, sep) == {0} \cup {i \in 1..Len(t) : t[i] = sep} \cup {Len(t) + 1}
NumPieces(t, sep) == Cardinality(Cuts(t, sep)) - 1
Piece(t, sep, n) ==
    SubSeq(t, Kth(Cuts(t, sep), n) + 1, Kth(Cuts(t, sep), n + 1) - 1)

\* the non-empty '/'-separated segments of the path text: a segment starts
\* at a character other than '/' that opens the text or follows a '/', and
\* runs up to the next '/'
SegmentStarts(t) ==
    {i \in 1..Len(t) : t[i] # "/" /\ (i = 1 \/ t[i - 1] = "/")}
SegmentAt(t, i) == SubSeq(t, i, FirstPos(From(t, i), "/") + i - 2)
NumSegments(s) == Cardinality(SegmentStarts(PathText(s)))
Segment(s, k) ==
    LET t == PathText(s) IN SegmentAt(t, Kth(SegmentStarts(t), k))

\* a piece is a key=value pair when it holds an '='; its key is the text
\* before the first '=', its value all the text behind it
HasEq(p) == \E i \in 1..Len(p) : p[i] = "="
KeyText(p) == SubSeq(p, 1, FirstPos(p, "=") - 1)
ValueText(p) == From(p, FirstPos(p, "=") + 1)

\* percent-decoded as the parser stores it
Decoded(x) == unwrap_or_default(decode(x))

\* how a piece reads: bare, or a decoded key and value
Reading(p) ==
    IF HasEq(p)
    THEN [bare |-> FALSE, key |-> Decoded(KeyText(p)), value |-> Decoded(ValueText(p))]
    ELSE [bare |-> TRUE, key |-> <<>>, value |-> <<>>]

\* the readings of the '&'-separated pieces n, n + 1, ... of the query text
RECURSIVE ReadingsFrom(_, _)
ReadingsFrom(q, n) ==
    IF n > NumPieces(q, "&") THEN <<>>
    ELSE <<Reading(Piece(q, "&", n))>> \o ReadingsFrom(q, n + 1)

\* the readings of the pieces of the query of s, left to right
QueryPairs(s) == IF HasQuery(s) THEN ReadingsFrom(QueryText(s), 1) ELSE <<>>

KeyValuePairs(kv) == {n \in DOMAIN kv : ~kv[n].bare}
BarePieces(kv) == {n \in DOMAIN kv : kv[n].bare}

\* pair n is the last pair that carries its key; another pair carries the
\* same key
LastWithKey(kv, n) ==
    \A m \in KeyValuePairs(kv) : m > n => kv[m].key # kv[n].key
Repeated(kv, n) ==
    \E m \in KeyValuePairs(kv) : m # n /\ kv[m].key = kv[n].key

\* the path is server/<id>/<channel>...
ServerRule(s) == NumSegments(s) >= 3 /\ Segment(s, 1) = SERVER

\* the params the reference reading gives: one entry per decoded key of a
\* key=value pair, holding the value of the last pair with that key, and the
\* third path segment under "channel" when the server rule applies
ExpectedParams(s) ==
    LET kv == QueryPairs(s)
        sr == ServerRule(s)
        keys == {kv[n].key : n \in KeyValuePairs(kv)}
                    \cup (IF sr THEN {CHANNEL} ELSE {})
    IN  [k \in keys |->
            IF sr /\ k = CHANNEL THEN Segment(s, 3)
            ELSE kv[Max({n \in KeyValuePairs(kv) : kv[n].key = k})].value]

\* the path text with its '/' runs collapsed: a '/' is kept only between two
\* segments, and only the first of a run
KeptInPath(t, i) ==
    \/ t[i] # "/"
    \/ /\ i > 1
       /\ t[i - 1] # "/"
       /\ \E j \in (i + 1)..Len(t) : t[j] # "/"

RECURSIVE CollapsedFrom(_, _)
CollapsedFrom(t, i) ==
    IF i > Len(t) THEN <<>>
    ELSE (IF KeptInPath(t, i) THEN <<t[i]>> ELSE <<>>) \o CollapsedFrom(t, i + 1)

\* the URL of s with the slashes of its path collapsed and its query untouched
Normalized(s) ==
    SCHEME \o CollapsedFrom(PathText(s), 1)
           \o (IF HasQuery(s) THEN <<"?">> \o QueryText(s) ELSE <<>>)

\* t starts with the scheme in some other letter case
SchemeInOtherCase(t) ==
    /\ Len(t) >= Len(SCHEME)
    /\ \A i \in 1..Len(SCHEME) : to_ascii_lowercase(t[i]) = SCHEME[i]
    /\ \E i \in 1..Len(SCHEME) : t[i] # SCHEME[i]

\* the call has returned / has returned a payload
Returned == pc = "return"
Parsed == pc = "return" /\ is_some(result)
Payload == unwrap(result)

IsDeepLink(s) == HasPrefix(Stripped(s), SCHEME)

(***************************************************************************)
(* Claims                                                                  *)
(***************************************************************************)
\* C1 (as stated): every input that does not start with the literal prefix
\* hearth:// makes parse_deep_link return nothing.
C1_AsStated == Returned /\ ~HasPrefix(url, SCHEME) => result = None

\* C1 (amended): every input whose whitespace-trimmed form does not start
\* with the literal prefix hearth:// makes parse_deep_link return nothing.
C1_NoSchemeNoPayload == Returned /\ ~IsDeepLink(url) => result = None

C1_Witness ==
    /\ Returned
    /\ url = HTTP \o <<"c", "h", "a", "t", "/", "1">>
    /\ result = None

\* C2: parse_deep_link returns a payload exactly when the trimmed input
\* starts with hearth:// and the text before the first '?' has a non-empty
\* '/'-separated segment; nothing in the query changes that.
C2_PayloadIffSchemeAndSegment ==
    Returned => (is_some(result) <=> IsDeepLink(url) /\ NumSegments(url) >= 1)

\* a link whose query holds an undecodable key and value and a bare key
C2_Witness ==
    /\ Parsed
    /\ url = SCHEME \o <<"a", "/", "b", "?", "%", "f", "f", "=", "%", "f", "f",
                         "&", "a">>
    /\ Payload.params = (<<>> :> <<>>)

\* C3: the action of every returned payload is non-empty and is the first
\* non-empty path segment, character for character.
C3_ActionIsFirstSegment ==
    Parsed => Payload.action # <<>> /\ Payload.action = Segment(url, 1)

\* an action with an upper-case letter behind a doubled slash
C3_Witness ==
    /\ Parsed
    /\ PathText(url) # Payload.action
    /\ Payload.action = <<"S", "e", "r", "v", "e", "r">>

\* C4: the target is the second non-empty path segment when there are at
\* least two, and is absent when there is exactly one.
C4_TargetIsSecondSegment ==
    Parsed =>
        /\ NumSegments(url) >= 2 => Payload.target = Some(Segment(url, 2))
        /\ NumSegments(url) = 1 => Payload.target = None

C4_Witness ==
    /\ Parsed
    /\ NumSegments(url) >= 3
    /\ Payload.target = Some(<<"c">>)
    /\ Payload.action # <<"c">>

\* C5: with action exactly "server" and at least three segments, params maps
\* "channel" to the third segment, whatever the query says about "channel".
C5_ServerChannelFromPath ==
    Parsed /\ Payload.action = SERVER /\ NumSegments(url) >= 3 =>
        /\ CHANNEL \in DOMAIN Payload.params
        /\ Payload.params[CHANNEL] = Segment(url, 3)

\* hearth://server/s/c1?channel=... yields channel = c1
C5_Witness ==
    /\ Parsed
    /\ Payload.action = SERVER
    /\ HasPrefix(QueryText(url), CHANNEL \o <<"=", "1">>)
    /\ Payload.params[CHANNEL] = <<"c", "1">>
\* C6 (as stated): a query key carried by several key=value pairs has a
\* single entry in params, whose value is the value of the last such pair.
C6_AsStated ==
    Parsed =>
        LET kv == QueryPairs(url)
        IN  \A n \in KeyValuePairs(kv) :
                Repeated(kv, n) /\ LastWithKey(kv, n) =>
                    /\ kv[n].key \in DOMAIN Payload.params
                    /\ Payload.params[kv[n].key] = kv[n].value

\* C6 (amended): a (decoded) query key carried by several key=value pairs has
\* a single entry in params, whose value is the (decoded) value of the last
\* such pair, unless the key is "channel" and the path is server/<id>/<channel>,
\* where the third path segment is the value.
C6_LastPairWins ==
    Parsed =>
        LET kv == QueryPairs(url)
        IN  \A n \in KeyValuePairs(kv) :
                /\ Repeated(kv, n)
                /\ LastWithKey(kv, n)
                /\ ~(kv[n].key = CHANNEL /\ ServerRule(url))
                => /\ kv[n].key \in DOMAIN Payload.params
                   /\ Payload.params[kv[n].key] = kv[n].value

\* ...?a=1&a=b=c yields a = "b=c"
C6_Witness ==
    /\ Parsed
    /\ QueryText(url) = <<"a", "=", "1", "&", "a", "=", "b", "=", "c">>
    /\ Payload.params = (<<"a">> :> <<"b", "=", "c">>)

\* C7: parsing a string gives the same result as parsing it with its leading
\* and trailing whitespace removed.
C7_WhitespaceIgnored == Returned => result = parse_deep_link(Stripped(url))

\* "  hearth://chat/1\n" parses like "hearth://chat/1"
C7_Witness ==
    /\ Parsed
    /\ url = <<" ", " ">> \o SCHEME \o <<"c", "h", "a", "t", "/", "1", "\n">>
    /\ Payload = DeepLinkPayload(<<"c", "h", "a", "t">>, Some(<<"1">>), HashMap_new)

\* C8: a hearth:// URL whose path part has no non-empty segment yields
\* nothing.
C8_NoSegmentNoPayload ==
    Returned /\ IsDeepLink(url) /\ NumSegments(url) = 0 => result = None

\* hearth://?a=1
C8_Witness ==
    /\ Returned
    /\ url = SCHEME \o <<"?", "a", "=", "1">>
    /\ result = None

\* C9: when the query holds a piece without '=', that piece adds no entry to
\* params and every key=value pair of the query still has its entry.
C9_BarePieceSkipped ==
    Parsed =>
        LET kv == QueryPairs(url)
        IN  BarePieces(kv) # {} =>
                DOMAIN Payload.params =
                    {kv[n].key : n \in KeyValuePairs(kv)}
                        \cup (IF ServerRule(url) THEN {CHANNEL} ELSE {})

\* ...?channel&a=1 yields the single entry a = "1"
C9_Witness ==
    /\ Parsed
    /\ QueryText(url) = CHANNEL \o <<"&", "a", "=", "1">>
    /\ Payload.params = (<<"a">> :> <<"1">>)

\* C10: every key=value pair is split at its first '=': the entry of its key
\* (the text before the first '=') holds all the text behind that '=', unless
\* a later pair or the server rule writes the same key.
C10_SplitAtFirstEq ==
    Parsed =>
        LET kv == QueryPairs(url)
        IN  \A n \in KeyValuePairs(kv) :
                /\ LastWithKey(kv, n)
                /\ ~(kv[n].key = CHANNEL /\ ServerRule(url))
                => /\ kv[n].key \in DOMAIN Payload.params
                   /\ Payload.params[kv[n].key] = kv[n].value

\* ...?a=b=c yields key a, value "b=c"
C10_Witness ==
    /\ Parsed
    /\ QueryText(url) = <<"a", "=", "b", "=", "c">>
    /\ Payload.params = (<<"a">> :> <<"b", "=", "c">>)

\* C11: when the URL holds more than one '?', the path part is the text before
\* the first '?' and the query is all the text behind it, every later '?'
\* being an ordinary character of the query.
C11_LaterQuestionMarksAreQueryText ==
    Parsed /\ (\E i \in 1..Len(QueryText(url)) : QueryText(url)[i] = "?") =>
        /\ Payload.action = Segment(url, 1)
        /\ Payload.params = ExpectedParams(url)

\* hearth://a/b?x=1?y=2 yields x = "1?y=2" and no key y
C11_Witness ==
    /\ Parsed
    /\ url = SCHEME \o <<"a", "/", "b", "?", "x", "=", "1", "?", "y", "=", "2">>
    /\ Payload.params = (<<"x">> :> <<"1", "?", "y", "=", "2">>)

\* C12: empty path segments are discarded: a URL parses like the URL whose
\* path has no leading, trailing or repeated '/', so adding or removing such
\* slashes never changes the result.
C12_SlashesCollapsed ==
    Returned /\ IsDeepLink(url) => result = parse_deep_link(Normalized(url))

\* hearth:///server//c parses like hearth://server/c
C12_Witness ==
    /\ Parsed
    /\ url = SCHEME \o <<"/">> \o SERVER \o <<"/", "/", "c">>
    /\ Normalized(url) = SCHEME \o SERVER \o <<"/", "c">>
    /\ Payload = DeepLinkPayload(SERVER, Some(<<"c">>), HashMap_new)

\* C13: when percent-decoding of a query key or value fails, the failing side
\* becomes the empty string, the pair is still inserted, and the parse still
\* returns a payload.
C13_DecodeFailureGivesEmpty ==
    Returned /\ IsDeepLink(url) /\ NumSegments(url) >= 1 =>
        /\ Parsed
        /\ LET q == QueryText(url)
               kv == QueryPairs(url)
           IN  \A n \in KeyValuePairs(kv) :
                   LET k == decode(KeyText(Piece(q, "&", n)))
                       v == decode(ValueText(Piece(q, "&", n)))
                       key == IF k = None THEN <<>> ELSE unwrap(k)
                   IN  k = None \/ v = None =>
                           /\ key \in DOMAIN Payload.params
                           /\ v = None /\ LastWithKey(kv, n)
                                /\ ~(key = CHANNEL /\ ServerRule(url))
                              => Payload.params[key] = <<>>

\* ...?%ff=1&a=%ff yields "" = "1" and a = ""
C13_Witness ==
    /\ Parsed
    /\ QueryText(url) = <<"%", "f", "f", "=", "1", "&", "a", "=", "%", "f", "f">>
    /\ Payload.params = (<<>> :> <<"1">>) @@ (<<"a">> :> <<>>)

\* C15: the scheme check is case-sensitive: a URL whose scheme differs from
\* hearth:// only in letter case yields nothing.
C15_SchemeCaseSensitive ==
    Returned /\ SchemeInOtherCase(Stripped(url)) => result = None

\* Hearth://settings
C15_Witness ==
    /\ Returned
    /\ url = <<"H">> \o Tail(SCHEME) \o <<"s", "e", "t", "t", "i", "n", "g", "s">>
    /\ result = None

\* C16: a URL hearth://A/T whose action A is outside the documented vocabulary
\* parses to action A and target T like any other.
C16_UnknownActionAccepted ==
    /\ Returned
    /\ IsDeepLink(url)
    /\ NumSegments(url) >= 1
    /\ Segment(url, 1) \notin Vocabulary
    => /\ Parsed
       /\ Payload.action = Segment(url, 1)
       /\ Payload.target =
              IF NumSegments(url) >= 2 THEN Some(Segment(url, 2)) ELSE None

\* hearth://a/b?... yields action a, target b
C16_Witness ==
    /\ Parsed
    /\ PathText(url) = <<"a", "/", "b">>
    /\ Payload.action = <<"a">>
    /\ Payload.target = Some(<<"b">>)

\* C17: params holds exactly the entries of the well-formed query pairs, plus
\* "channel" only when the action is exactly "server" with at least three
\* segments; other path segments beyond the second leave no trace.
C17_ParamsExactlyQueryPlusChannel == Parsed => Payload.params = ExpectedParams(url)

\* hearth://Server/s/c1?channel=c2 keeps the channel of the query
C17_Witness ==
    /\ Parsed
    /\ Payload.action = <<"S", "e", "r", "v", "e", "r">>
    /\ NumSegments(url) = 3
    /\ Payload.params = (CHANNEL :> <<"c", "2">>)

(***************************************************************************)
(* Claims about the handling of incoming links                             *)
(***************************************************************************)
\* the payloads of the URLs of us that parse, in order
RECURSIVE PayloadsOf(_)
PayloadsOf(us) ==
    IF us = <<>> THEN <<>>
    ELSE (IF is_some(parse_deep_link(Head(us)))
          THEN <<unwrap(parse_deep_link(Head(us)))>> ELSE <<>>)
         \o PayloadsOf(Tail(us))

\* the strings of args that start with hearth://, in order
RECURSIVE SchemeArgs(_)
SchemeArgs(args) ==
    IF args = <<>> THEN <<>>
    ELSE (IF HasPrefix(Head(args), SCHEME) THEN <<Head(args)>> ELSE <<>>)
         \o SchemeArgs(Tail(args))

EmitCalls == {j \in DOMAIN calls : calls[j].op = "emit"}

\* C18: for every URL handed to handle_deep_link that parses, the handler
\* calls show, then set_focus, then emits exactly one "deeplink" event with
\* the payload; nothing else is called or emitted.
C18_ShowFocusThenOneEvent ==
    LET ps == PayloadsOf(handed)
    IN  /\ Len(emitted) = Len(ps)
        /\ Len(calls) = 3 * Len(ps)
        /\ \A k \in 1..Len(ps) :
               /\ emitted[k] = Event("deeplink", ps[k])
               /\ calls[3 * k - 2].op = "show"
               /\ calls[3 * k - 1].op = "set_focus"
               /\ calls[3 * k].op = "emit"
               /\ hpc = "loop" /\ calls[3 * k - 2].ok => window.visible
               /\ hpc = "loop" /\ calls[3 * k - 1].ok => window.focused

\* a listener batch of two URLs of which one parses: one event, the window
\* shown and focused
C18_Witness ==
    /\ handler = "listener"
    /\ hpc = "loop"
    /\ Len(handed) = 2
    /\ Len(emitted) = 1
    /\ emitted[1].payload.action = <<"c", "h", "a", "t">>
    /\ calls[1].ok /\ calls[2].ok
    /\ window.visible /\ window.focused

\* C19: a failure of show or of set_focus is dropped: the "deeplink" event
\* with the payload of that URL is emitted all the same.
C19_WindowFailureSwallowed ==
    /\ Cardinality(EmitCalls) = Len(emitted)
    /\ \A i \in DOMAIN calls :
           ~calls[i].ok =>
               \E j \in EmitCalls :
                   /\ j > i
                   /\ j <= i + 2
                   /\ calls[j].url = calls[i].url
                   /\ emitted[Cardinality({x \in EmitCalls : x <= j})] =
                          Event("deeplink", unwrap(parse_deep_link(calls[i].url)))

\* show and set_focus both fail, the event is emitted
C19_Witness ==
    /\ Len(calls) = 3
    /\ calls[1].op = "show" /\ ~calls[1].ok
    /\ calls[2].op = "set_focus" /\ ~calls[2].ok
    /\ ~window.visible
    /\ emitted = <<Event("deeplink", unwrap(parse_deep_link(calls[1].url)))>>

\* C20: once the single-instance callback is over, every argument that starts
\* with hearth:// has been handed to handle_deep_link, in argument order,
\* whatever became of the attempt to focus the main window, the main window
\* being unavailable included.
C20_EverySchemeArgHanded ==
    handler = "relaunch" /\ hpc \in {"idle", "panicked"} =>
        handed = SchemeArgs(batch)

\* the "deeplink" events of a sequence of payloads
EventsOf(ps) == [k \in 1..Len(ps) |-> Event("deeplink", ps[k])]

\* the part of the batch the loop has gone through
Processed == SubSeq(batch, 1, Len(batch) - Len(queue))

\* C21: the URLs of a batch are processed one by one in batch order, with no
\* de-duplication or coalescing: the "deeplink" events emitted so far are, in
\* order, the payloads of the URLs gone through that parse, so that a URL
\* repeated k times gives k events.
C21_EventsFollowBatchOrder ==
    handler = "listener" =>
        /\ Len(queue) <= Len(batch)
        /\ queue = SubSeq(batch, Len(batch) - Len(queue) + 1, Len(batch))
        /\ emitted = EventsOf(PayloadsOf(Processed))

\* a batch that holds the same link twice has given two equal events
C21_Witness ==
    /\ handler = "listener"
    /\ hpc = "idle"
    /\ Len(batch) = 2
    /\ batch[1] = batch[2]
    /\ Len(emitted) = 2
    /\ emitted[1] = emitted[2]

\* a string that parse_deep_link turns into a payload, read from its text
ValidLink(s) == IsDeepLink(s) /\ NumSegments(s) >= 1

\* how many of the first i elements of us are valid links
ValidUpTo(us, i) == Cardinality({j \in 1..i : ValidLink(us[j])})

\* C22: each element of a delivered batch is parsed on its own: once the
\* listener is over there is one event per valid element and none for an
\* invalid one, and every valid element has its event, whatever stands before
\* or after it in the batch.
C22_InvalidElementStopsNothing ==
    handler = "listener" /\ hpc = "idle" =>
        /\ Len(emitted) = ValidUpTo(batch, Len(batch))
        /\ \A i \in DOMAIN batch :
               ValidLink(batch[i]) =>
                   emitted[ValidUpTo(batch, i)] =
                       Event("deeplink", unwrap(parse_deep_link(batch[i])))

\* an invalid element first, a valid one after it, which has been delivered
C22_Witness ==
    /\ handler = "listener"
    /\ hpc = "idle"
    /\ Len(batch) = 2
    /\ ~ValidLink(batch[1])
    /\ ValidLink(batch[2])
    /\ Len(emitted) = 1

\* C23: when the URL handed to handle_deep_link does not parse, the call has
\* no effect: no event is emitted, no call is made on the window, and the
\* window's visibility and focus stay as they were.
C23_NoParseNoEffect ==
    [][ (/\ Len(handed') = Len(handed) + 1
         /\ ~is_some(parse_deep_link(handed'[Len(handed')])))
        => (emitted' = emitted /\ calls' = calls /\ window' = window) ]_vars

\* a URL that does not parse was handed over while the window was hidden:
\* the window is still hidden and nothing was emitted
C23_Witness ==
    /\ handed # <<>>
    /\ ~is_some(parse_deep_link(handed[Len(handed)]))
    /\ window.exists
    /\ ~window.visible
    /\ ~window.focused
    /\ emitted = <<>>
    /\ calls = <<>>

C24_FocusStatesAgree ==
    is_focus_mode_active(FOCUS_MODE_ACTIVE).ret
        = is_focus_mode_enabled(FOCUS_MODE_ENABLED)

\* b inverted n times
Inverted(b, n) == IF n % 2 = 0 THEN b ELSE ~b

\* C25: every toggle_mute call flips the flag exactly once, even when calls
\* from the frontend command, the shortcut and the tray interleave: once the
\* n calls made have returned (and no set_mute was called), the flag is its
\* initial value inverted n times.
C25_NoToggleLost ==
    (\A c \in Sources : mute_call[c].pc # "loaded") =>
        NOTIFICATIONS_MUTED = Inverted(FALSE, ntoggles)

\* C26: run one at a time, the mute operations behave as a boolean cell:
\* set_mute(b) returns b and leaves is_muted = b; toggle_mute returns the
\* negation of the value is_muted had and leaves is_muted at that value; a
\* toggle that follows a toggle restores the state before the first; is_muted
\* returns the flag and changes nothing.  A step that changes last is a
\* call; last.before is the flag the previous call found.
C26_MuteIsBooleanCell ==
    [][ LET now == is_muted(NOTIFICATIONS_MUTED').ret
            was == is_muted(NOTIFICATIONS_MUTED).ret
        IN  last' # last =>
                /\ last'.op = "set_mute" =>
                       last'.ret = last'.arg /\ Some(now) = last'.arg
                /\ last'.op = "toggle_mute" =>
                       last'.ret = Some(~was) /\ now = ~was
                /\ last'.op = "toggle_mute" /\ last.op = "toggle_mute" =>
                       now = last.before
                /\ last'.op = "is_muted" =>
                       last'.ret = Some(was) /\ now = was ]_vars

\* a toggle_mute call found notifications muted, returned false and left
\* them unmuted
C26_Witness ==
    /\ last.op = "toggle_mute"
    /\ last.before = TRUE
    /\ last.ret = Some(FALSE)
    /\ ~NOTIFICATIONS_MUTED

\* C27: after any sequence of mute operations the label of the tray menu item
\* agrees with the mute flag: "Unmute Notifications" exactly when
\* notifications are muted, "Mute Notifications" otherwise.
C27_TrayLabelAgreesWithFlag ==
    tray_menu.mute_text =
        (IF is_muted(NOTIFICATIONS_MUTED).ret THEN UNMUTE_TEXT ELSE MUTE_TEXT)

\* C30: is_sleep_prevented is true after a successful prevent_sleep and false
\* after allow_sleep, a failed prevent_sleep leaves the flag as it was, and
\* once allow_sleep has returned no inhibition started by an earlier
\* prevent_sleep is still in force.
C30_FlagTracksInhibition ==
    /\ last.op = "prevent_sleep" /\ last.ok => PREVENTING_SLEEP
    /\ last.op = "prevent_sleep" /\ ~last.ok => PREVENTING_SLEEP = last.before
    /\ last.op = "allow_sleep" => ~PREVENTING_SLEEP /\ inhibitors = 0

(***************************************************************************)
(* Claims about the updater                                                *)
(***************************************************************************)
RECURSIVE Sum(_)
Sum(ns) == IF ns = <<>> THEN 0 ELSE Head(ns) + Sum(Tail(ns))

StepOrder == <<"updater", "check", "download", "install", "restart">>

Ran(name) == \E i \in DOMAIN usteps : usteps[i].step = name
RanOk(name) ==
    \E i \in DOMAIN usteps : usteps[i].step = name /\ usteps[i].outcome = "ok"

Installing == {k \in DOMAIN uevents : uevents[k].event = "update:installing"}

\* C29: download_and_install_update emits one "update:progress" event per
\* chunk, whose downloaded count is the sum of the chunk lengths received so
\* far and never decreases; "update:installing" comes after them, once, and
\* only when the download has ended well; install comes after that and
\* restart after a successful install; when the check, the download or the
\* install fails an error is returned, no later step runs and the
\* application is not restarted.
C29_UpdateStepsInOrder ==
    /\ Len(usteps) <= Len(StepOrder)
    /\ \A i \in DOMAIN usteps :
           /\ usteps[i].step = StepOrder[i]
           /\ i < Len(usteps) => usteps[i].outcome = "ok"
    /\ Len(uevents) = Len(chunks) + (IF RanOk("download") THEN 1 ELSE 0)
    /\ \A k \in 1..Len(chunks) :
           /\ uevents[k].event = "update:progress"
           /\ uevents[k].payload.downloaded = Sum(SubSeq(chunks, 1, k))
           /\ k > 1 => uevents[k - 1].payload.downloaded
                           <= uevents[k].payload.downloaded
    /\ Installing = IF RanOk("download") THEN {Len(chunks) + 1} ELSE {}
    /\ Ran("install") => Installing # {}
    /\ Ran("restart") <=> upc = "restarted"
    /\ Ran("restart") => RanOk("install")
    /\ (\E i \in DOMAIN usteps : usteps[i].outcome = "err") <=> upc = "failed"
    /\ upc = "failed" <=> is_some(ureturn)
    /\ upc = "failed" => ~Ran("restart")

\* three chunks came in, the update was installed and the application
\* restarted
C29_Witness ==
    /\ upc = "restarted"
    /\ chunks = <<2, 0, 1>>
    /\ uevents[3].payload.downloaded = 3
    /\ uevents[4].event = "update:installing"

====
